---------------------------- MODULE Spec2Model ----------------------------
(***************************************************************************)
(* Model of scripts/notification_util.py: the NotificationService that     *)
(* writes an in-app notification document to Firestore and sends one bulk  *)
(* SMS request to the iProg gateway, together with its convenience entry   *)
(* points.                                                                 *)
(*                                                                         *)
(* Text is modelled as a sequence of characters.  The title and the body   *)
(* of an alert are sequences of integer code points, every position with   *)
(* its own code point, so that slicing and concatenation are observable.   *)
(* The text of a gateway reply is a sequence of one-character strings.     *)
(* An optional Python value (None or a value) is a record with the field   *)
(* `some`.                                                                 *)
(***************************************************************************)
EXTENDS Integers, Sequences, FiniteSets, TLC

VARIABLES
    env,              \* os.environ: the Google credentials variables
    IPROG_API_TOKEN,  \* module-level constant, read once at import
    IPROG_BASE_URL,   \* module-level constant, read once at import
    svc,              \* the NotificationService instance in use
    pc,               \* position of the running call
    frame,            \* locals of the running call
    docs,             \* number of documents added to 'notifications'
    posts,            \* number of requests.post calls issued
    calls,            \* number of entry-point calls begun
    hist              \* what the running call has done so far, and whether
                      \* the instance in use was built without credentials

vars == <<env, IPROG_API_TOKEN, IPROG_BASE_URL, svc, pc, frame, docs, posts,
          calls, hist>>

-----------------------------------------------------------------------------
(* Bounds *)

MaxCalls == 2
MaxRecipients == 3
MaxTitleLen == 165
MaxBodyLen == 125

(* Program constants *)

BodyCut == 120
SmsMax == 160
SmsKeep == 157
HttpOk == 200

-----------------------------------------------------------------------------
(* Python values *)

NoneStr == [some |-> FALSE, v |-> ""]
SomeStr(s) == [some |-> TRUE, v |-> s]
NoneSeq == [some |-> FALSE, v |-> <<>>]
SomeSeq(s) == [some |-> TRUE, v |-> s]

\* bool(x) of an optional string or sequence: None and the empty value are falsy
TruthyStr(o) == o.some /\ o.v # ""
TruthySeq(o) == o.some /\ Len(o.v) > 0

\* s[:n]
Take(s, n) == SubSeq(s, 1, IF Len(s) < n THEN Len(s) ELSE n)

\* the text of n characters whose i-th character is the code point base + i
Text(base, n) == [i \in 1..n |-> base + i]

Colon == 58
Space == 32
Dot == 46

-----------------------------------------------------------------------------
(* NotificationService._create_sms_message *)

CreateSmsMessageLateCut(title, long_message) ==
    LET sms == title \o <<Colon, Space>> \o Take(long_message, BodyCut)
    IN  IF Len(sms) > SmsMax
        THEN Take(sms, SmsMax) \o <<Dot, Dot, Dot>>
        ELSE sms

\* sms = f"{title}: {long_message[:120]}"
\* return sms[:157] + "..." if len(sms) > 160 else sms
CreateSmsMessage(title, long_message) ==
    LET sms == title \o <<Colon, Space>> \o Take(long_message, BodyCut)
    IN  IF Len(sms) > SmsMax
        THEN Take(sms, SmsKeep) \o <<Dot, Dot, Dot>>
        ELSE sms

-----------------------------------------------------------------------------
(* The request built by _send_sms_batch *)

\* ",".join(recipients): the numbers in list order, a comma between neighbours
RECURSIVE JoinComma(_)
JoinComma(recipients) ==
    IF Len(recipients) = 0 THEN <<>>
    ELSE IF Len(recipients) = 1 THEN <<recipients[1]>>
    ELSE <<recipients[1], ",">> \o JoinComma(Tail(recipients))

\* payload = {'api_token': ..., 'phone_number': ..., 'message': ...}
Payload(api_key, recipients, message) ==
    [api_token |-> api_key.v, phone_number |-> JoinComma(recipients),
     message |-> message]

-----------------------------------------------------------------------------
(* The gateway's reply and its classification *)

\* a JSON value: t names its type, the field of that type holds it
Absent == [t |-> "absent", b |-> FALSE, i |-> 0, s |-> <<>>]
JNull == [t |-> "null", b |-> FALSE, i |-> 0, s |-> <<>>]
JBool(x) == [t |-> "bool", b |-> x, i |-> 0, s |-> <<>>]
JInt(x) == [t |-> "int", b |-> FALSE, i |-> x, s |-> <<>>]
JStr(x) == [t |-> "str", b |-> FALSE, i |-> 0, s |-> x]

\* bool(v); a key that is absent reads as None through dict.get
Truthy(v) ==
    CASE v.t = "bool" -> v.b
      [] v.t = "int" -> v.i # 0
      [] v.t = "str" -> Len(v.s) > 0
      [] OTHER -> FALSE

\* str(v)
Str(v) ==
    CASE v.t = "str" -> v.s
      [] v.t = "null" -> <<"N", "o", "n", "e">>
      [] v.t = "bool" -> IF v.b THEN <<"T", "r", "u", "e">>
                                ELSE <<"F", "a", "l", "s", "e">>
      [] v.t = "int" -> IF v.i = 0 THEN <<"0">> ELSE <<"1">>
      [] OTHER -> <<>>

UpperAlpha ==
    <<"A", "B", "C", "D", "E", "F", "G", "H", "I", "J", "K", "L", "M",
      "N", "O", "P", "Q", "R", "S", "T", "U", "V", "W", "X", "Y", "Z">>
LowerAlpha ==
    <<"a", "b", "c", "d", "e", "f", "g", "h", "i", "j", "k", "l", "m",
      "n", "o", "p", "q", "r", "s", "t", "u", "v", "w", "x", "y", "z">>

\* str.lower()
LowerChar(c) ==
    IF \E k \in 1..Len(UpperAlpha) : UpperAlpha[k] = c
    THEN LowerAlpha[CHOOSE k \in 1..Len(UpperAlpha) : UpperAlpha[k] = c]
    ELSE c
Lower(s) == [k \in 1..Len(s) |-> LowerChar(s[k])]

\* needle in hay
Contains(hay, needle) ==
    \E k \in 1..(Len(hay) - Len(needle) + 1) :
        SubSeq(hay, k, k + Len(needle) - 1) = needle

Successfully == <<"s", "u", "c", "c", "e", "s", "s", "f", "u", "l", "l", "y">>

\* result.get("message", ""): the default only when the key is absent
GetMessage(result) ==
    IF result.message.t = "absent" THEN JStr(<<>>) ELSE result.message

\* result.get("success") or "successfully" in str(result.get("message", "")).lower()
SuccessCheck(result) ==
    \/ Truthy(result.success)
    \/ Contains(Lower(Str(GetMessage(result))), Successfully)

-----------------------------------------------------------------------------
(* Configuration and construction *)

\* values os.getenv can return for the variables the module reads
Tokens == {NoneStr, SomeStr(""), SomeStr("tok")}
BaseUrls == {NoneSeq, SomeSeq(<<"https://gw.test/api", "/">>)}
CredsJsons == {NoneStr, SomeStr("{bad"), SomeStr("{key}")}
CredsFiles == {NoneStr, SomeStr("gone.json"), SomeStr("key.json")}

Envs == [creds_json : CredsJsons, creds_file : CredsFiles]

\* json.loads(creds_json) succeeds
JsonLoads(text) == text = "{key}"
\* os.path.exists(creds_file)
PathExists(path) == path = "key.json"

\* get_firestore_client(): the client, or None.  clientOk is whether the
\* Firestore library accepts the credentials and builds a client.
GetFirestoreClient(e, clientOk) ==
    IF TruthyStr(e.creds_json)
    THEN IF JsonLoads(e.creds_json.v) /\ clientOk THEN SomeStr("db") ELSE NoneStr
    ELSE IF TruthyStr(e.creds_file) /\ PathExists(e.creds_file.v)
         THEN IF clientOk THEN SomeStr("db") ELSE NoneStr
         ELSE NoneStr

\* url.rstrip('/')
RECURSIVE RStripSlash(_)
RStripSlash(url) ==
    IF Len(url) > 0 /\ url[Len(url)] = "/"
    THEN RStripSlash(SubSeq(url, 1, Len(url) - 1))
    ELSE url

DefaultUrl == <<"https://sms.iprogtech.com/api/v1", "/sms_messages/send_bulk">>

\* the api_url __init__ settles on
ApiUrl(base) ==
    IF TruthySeq(base)
    THEN RStripSlash(base.v) \o <<"/sms_messages/send_bulk">>
    ELSE DefaultUrl

NoService ==
    [live |-> FALSE, db |-> NoneStr, firestore_enabled |-> FALSE,
     api_key |-> NoneStr, api_url |-> <<>>]

\* NotificationService.__init__
NewService(e, token, base, clientOk) ==
    LET db == GetFirestoreClient(e, clientOk)
    IN  [live |-> TRUE, db |-> db, firestore_enabled |-> db.some,
         api_key |-> token, api_url |-> ApiUrl(base)]

\* no document-store credentials are configured: neither the JSON variable
\* nor a credentials file that exists
CredsMissing(e) ==
    /\ ~TruthyStr(e.creds_json)
    /\ ~(TruthyStr(e.creds_file) /\ PathExists(e.creds_file.v))

-----------------------------------------------------------------------------
(* Inputs *)

P1 == "+639170000001"
P2 == "+639170000002"

\* the lists of at most MaxRecipients numbers: the prefixes of P2, P1, P2, P1, ...
\* (not in sorted order, and with a repeat from the third number on)
PhoneLists ==
    {[k \in 1..n |-> IF k % 2 = 1 THEN P2 ELSE P1] : n \in 0..MaxRecipients}

\* sms_recipients as a caller passes it: None, or a list
Explicit == {NoneSeq} \cup {SomeSeq(l) : l \in PhoneLists}

\* a row of the users table as the SELECT returns it
Row(phone) ==
    [phone_number |-> phone,
     first_name |-> IF phone = P1 THEN SomeStr("Ana") ELSE NoneStr,
     last_name |-> NoneStr]

\* what the users query does: it raises, or it returns rows
Lookups ==
    {[kind |-> "error", rows |-> <<>>]} \cup
    {[kind |-> "rows", rows |-> [k \in 1..Len(l) |-> Row(l[k])]] : l \in PhoneLists}

\* (title, message) pairs: one that fits an SMS, one that is cut twice
Alerts ==
    {[title |-> Text(1000, 3), message |-> Text(2000, 4)],
     [title |-> Text(1000, 45), message |-> Text(2000, 125)]}

Hazards == {Text(3000, 5)}

\* f"⚠️ {hazard_type} Alert"
AlertTitle(hazard_type) ==
    <<9888, 65039, Space>> \o hazard_type \o <<Space, 65, 108, 101, 114, 116>>

NoReply ==
    [kind |-> "none", exc |-> "", status |-> 0, parse |-> "",
     success |-> Absent, message |-> Absent]
Raises(exc) == [NoReply EXCEPT !.kind = "raise", !.exc = exc]
Response(status, parse, success, message) ==
    [kind |-> "response", exc |-> "", status |-> status, parse |-> parse,
     success |-> success, message |-> message]

SentSuccessfully ==
    <<"S", "e", "n", "t", " ", "S", "u", "c", "c", "e", "s", "s", "f", "u",
      "l", "l", "y">>
QueuedUpper ==
    <<"S", "U", "C", "C", "E", "S", "S", "F", "U", "L", "L", "Y", "!">>
Successful == <<"s", "u", "c", "c", "e", "s", "s", "f", "u", "l">>
BadNumber == <<"b", "a", "d", " ", "n", "u", "m", "b", "e", "r">>

\* what requests.post does: it raises, or it returns a response.
Replies ==
    {Raises("Timeout"), Raises("ConnectionError"),
     Response(500, "dict", JBool(TRUE), JStr(SentSuccessfully)),
     Response(HttpOk, "invalid", Absent, Absent),
     Response(HttpOk, "list", Absent, Absent),
     Response(HttpOk, "dict", Absent, JStr(BadNumber)),
     Response(HttpOk, "dict", JBool(TRUE), Absent)}

\* the statuses and bodies that probe the success check
ProbeReplies ==
    {Response(201, "dict", JBool(TRUE), Absent),
     Response(500, "invalid", Absent, Absent),
     Response(HttpOk, "dict", JBool(FALSE), Absent),
     Response(HttpOk, "dict", JInt(0), Absent),
     Response(HttpOk, "dict", JInt(1), JStr(BadNumber)),
     Response(HttpOk, "dict", JStr(<<"n", "o">>), Absent),
     Response(HttpOk, "dict", JStr(<<>>), Absent),
     Response(HttpOk, "dict", JNull, JNull),
     Response(HttpOk, "dict", Absent, JStr(SentSuccessfully)),
     Response(HttpOk, "dict", JBool(FALSE), JStr(QueuedUpper)),
     Response(HttpOk, "dict", Absent, JStr(Successful)),
     Response(HttpOk, "dict", Absent, JStr(Successfully)),
     Response(HttpOk, "dict", Absent, JBool(TRUE)),
     Response(HttpOk, "dict", Absent, Absent)}

-----------------------------------------------------------------------------
(* State *)

NoOutcome == [logged |-> FALSE, success |-> FALSE, sent |-> 0, of |-> 0]
NoLookup == [kind |-> "none", rows |-> <<>>]

NoFrame ==
    [title |-> <<>>, message |-> <<>>, notif_type |-> "",
     status |-> "", sent_to |-> 0, send_sms |-> FALSE,
     sms_recipients |-> NoneSeq, recipients |-> <<>>, sms_message |-> <<>>,
     reply |-> NoReply, outcome |-> NoOutcome]

\* what the running call has done so far: how the log branch ended, how the
\* users query ended, whether _send_sms_batch ran, the documents it wrote,
\* the requests it issued and the number of users queries it ran
NoCall ==
    [fn |-> "", log |-> "none", lookup |-> NoLookup, batch |-> "none",
     docs |-> <<>>, posts |-> <<>>, queries |-> 0]

Init ==
    /\ env \in Envs
    /\ IPROG_API_TOKEN \in Tokens
    /\ IPROG_BASE_URL \in BaseUrls
    /\ svc = NoService
    /\ pc = "idle"
    /\ frame = NoFrame
    /\ docs = 0
    /\ posts = 0
    /\ calls = 0
    /\ hist = [credsMissing |-> FALSE, call |-> NoCall]

-----------------------------------------------------------------------------
(* Exception handlers *)

\* the errors the store, the users query and the gateway call can raise;
\* all of them derive from Exception
PyExceptions ==
    {"GoogleAPIError", "OperationalError", "Timeout", "ConnectionError",
     "JSONDecodeError", "AttributeError"}

LogHandlesNothing(exc) == FALSE
\* send_notification: except Exception around the document write
LogHandles(exc) == exc \in PyExceptions

LookupHandlesNothing(exc) == FALSE
\* _get_registered_users_phones: except Exception around the query
LookupHandles(exc) == exc \in PyExceptions

\* _send_sms_batch: except Exception around response.json() and the check
ParseHandles(exc) == exc \in PyExceptions

SendHandlesTimeoutOnly(exc) == exc = "Timeout"
\* _send_sms_batch: except requests.exceptions.Timeout, then except Exception
SendHandles(exc) == exc = "Timeout" \/ exc \in PyExceptions

-----------------------------------------------------------------------------
(* Entry points *)

Construct(fn, clientOk) ==
    /\ svc' = NewService(env, IPROG_API_TOKEN, IPROG_BASE_URL, clientOk)
    /\ hist' = [credsMissing |-> CredsMissing(env),
                call |-> [NoCall EXCEPT !.fn = fn]]

Begin(title, message, notif_type, send_sms, sms_recipients) ==
    /\ pc = "idle"
    /\ calls < MaxCalls
    /\ calls' = calls + 1
    /\ frame' = [NoFrame EXCEPT !.title = title, !.message = message,
                                !.notif_type = notif_type, !.status = "Active",
                                !.sent_to = 0, !.send_sms = send_sms,
                                !.sms_recipients = sms_recipients]
    /\ pc' = "log"
    /\ UNCHANGED <<env, IPROG_API_TOKEN, IPROG_BASE_URL, docs, posts>>

\* service = NotificationService(), by a caller that keeps the instance
NewNotificationService ==
    /\ pc = "idle"
    /\ \E clientOk \in BOOLEAN : Construct("", clientOk)
    /\ UNCHANGED <<env, IPROG_API_TOKEN, IPROG_BASE_URL, pc, frame, docs, posts,
                   calls>>

\* service.send_notification(...) on the instance in use
CallSendNotification ==
    /\ svc.live
    /\ \E a \in Alerts, send_sms \in BOOLEAN, r \in Explicit :
          Begin(a.title, a.message, "Warning", send_sms, r)
    /\ svc' = svc
    /\ hist' = [hist EXCEPT !.call = [NoCall EXCEPT !.fn = "send_notification"]]

\* send_event_notification(...): a new instance, then send_notification
CallSendEventNotification ==
    /\ \E a \in Alerts, send_sms \in BOOLEAN, r \in Explicit :
          Begin(a.title, a.message, "Warning", send_sms, r)
    /\ \E clientOk \in BOOLEAN : Construct("send_event_notification", clientOk)

\* send_weather_alert(hazard_type, message, recipients)
CallSendWeatherAlert ==
    /\ \E h \in Hazards, a \in Alerts, r \in Explicit :
          Begin(AlertTitle(h), a.message, "Alert", TRUE, r)
    /\ \E clientOk \in BOOLEAN : Construct("send_weather_alert", clientOk)

\* send_sms_only(phone_numbers, message): a new instance, then _send_sms_batch
CallSendSmsOnly ==
    /\ pc = "idle"
    /\ calls < MaxCalls
    /\ calls' = calls + 1
    /\ \E a \in Alerts, r \in Explicit \ {NoneSeq} :
          frame' = [NoFrame EXCEPT !.recipients = r.v, !.sms_message = a.message]
    /\ \E clientOk \in BOOLEAN : Construct("send_sms_only", clientOk)
    /\ pc' = "batch"
    /\ UNCHANGED <<env, IPROG_API_TOKEN, IPROG_BASE_URL, docs, posts>>

-----------------------------------------------------------------------------
(* send_notification *)

LogSinkReprobed(s, e) == GetFirestoreClient(e, TRUE).some
\* if self.firestore_enabled:
LogSinkEnabled(s, e) == s.firestore_enabled

\* in_app_doc
InAppDoc(f) ==
    [title |-> f.title, message |-> f.message, type |-> f.notif_type,
     status |-> f.status, sentTo |-> f.sent_to]

\* what self.db.collection('notifications').add(in_app_doc) does
Writes == {"ok", "GoogleAPIError"}

LogBranch ==
    /\ pc = "log"
    /\ IF LogSinkEnabled(svc, env)
       THEN \E w \in Writes :
              IF w = "ok"
              THEN /\ docs' = docs + 1
                   /\ hist' = [hist EXCEPT !.call.docs = Append(@, InAppDoc(frame)),
                                           !.call.log = "ok"]
                   /\ pc' = "sms"
              ELSE /\ docs' = docs
                   /\ hist' = [hist EXCEPT !.call.log = "failed"]
                   /\ pc' = IF LogHandles(w) THEN "sms" ELSE "raised"
       ELSE /\ docs' = docs
            /\ hist' = [hist EXCEPT !.call.log = "disabled"]
            /\ pc' = "sms"
    /\ UNCHANGED <<env, IPROG_API_TOKEN, IPROG_BASE_URL, svc, frame, posts, calls>>

\* if send_sms and self.api_key:
SmsEnabled(s, send_sms) == send_sms /\ TruthyStr(s.api_key)

\* _get_registered_users_phones(): the phone column of the rows, in row
\* order; [] when there are no rows and when the query raises
LookupRaises(lk) == lk.kind = "error" /\ ~LookupHandles("OperationalError")
RegisteredUsersPhones(lk) ==
    IF lk.kind = "error" \/ Len(lk.rows) = 0
    THEN <<>>
    ELSE [k \in 1..Len(lk.rows) |-> lk.rows[k].phone_number]

RECURSIVE Deduped(_)
Deduped(recipients) ==
    IF Len(recipients) = 0 THEN <<>>
    ELSE LET rest == Deduped(SubSeq(recipients, 1, Len(recipients) - 1))
             x == recipients[Len(recipients)]
         IN  IF \E k \in 1..Len(rest) : rest[k] = x THEN rest ELSE Append(rest, x)
\* the list handed to _send_sms_batch
BatchRecipients(recipients) == recipients

\* if sms_recipients: compose, then _send_sms_batch
SendsTo(recipients) == Len(recipients) > 0

ToBatch(recipients) ==
    IF SendsTo(recipients)
    THEN /\ frame' = [frame EXCEPT
                        !.recipients = BatchRecipients(recipients),
                        !.sms_message = CreateSmsMessage(frame.title, frame.message)]
         /\ pc' = "batch"
    ELSE /\ frame' = frame
         /\ pc' = "return"

SmsBranch ==
    /\ pc = "sms"
    /\ IF SmsEnabled(svc, frame.send_sms)
       THEN IF frame.sms_recipients.some
            THEN /\ ToBatch(frame.sms_recipients.v)
                 /\ hist' = hist
            ELSE \E lk \in Lookups :
                   /\ hist' = [hist EXCEPT !.call.queries = @ + 1,
                                           !.call.lookup = lk]
                   /\ IF LookupRaises(lk)
                      THEN frame' = frame /\ pc' = "raised"
                      ELSE ToBatch(RegisteredUsersPhones(lk))
       ELSE /\ pc' = "return"
            /\ UNCHANGED <<frame, hist>>
    /\ UNCHANGED <<env, IPROG_API_TOKEN, IPROG_BASE_URL, svc, docs, posts, calls>>

-----------------------------------------------------------------------------
(* _send_sms_batch *)

BatchAlways(s) == TRUE
\* if not self.api_key: return
BatchEnabled(s) == TruthyStr(s.api_key)

PerRecipientRequests(s, recipients, message) ==
    [k \in 1..Len(recipients) |->
        [url |-> s.api_url, json |-> Payload(s.api_key, <<recipients[k]>>, message)]]
\* the requests.post calls of one batch: one request carrying every number
BatchRequests(s, recipients, message) ==
    <<[url |-> s.api_url, json |-> Payload(s.api_key, recipients, message)]>>

\* the reply makes an exception leave _send_sms_batch
BatchRaises(reply) ==
    \/ reply.kind = "raise" /\ ~SendHandles(reply.exc)
    \/ /\ reply.kind = "response" /\ reply.status = HttpOk
       /\ reply.parse = "invalid"
       /\ ~ParseHandles("JSONDecodeError") /\ ~SendHandles("JSONDecodeError")
    \/ /\ reply.kind = "response" /\ reply.status = HttpOk
       /\ reply.parse = "list"
       /\ ~ParseHandles("AttributeError") /\ ~SendHandles("AttributeError")

DeliveredAnyStatus(reply) ==
    reply.kind = "response" /\ reply.parse = "dict" /\ SuccessCheck(reply)
\* the reply takes the branch that logs "Bulk SMS sent successfully"
Delivered(reply) ==
    /\ reply.kind = "response"
    /\ reply.status = HttpOk
    /\ reply.parse = "dict"
    /\ SuccessCheck(reply)

\* the outcome lines: "Bulk SMS sent successfully" or not, "SMS: k/n sent"
Outcome(reply, n) ==
    [logged |-> TRUE, success |-> Delivered(reply),
     sent |-> IF Delivered(reply) THEN n ELSE 0, of |-> n]

SendBatchWith(replies) ==
    /\ pc = "batch"
    /\ IF BatchEnabled(svc)
       THEN \E reply \in replies :
              LET reqs == BatchRequests(svc, frame.recipients, frame.sms_message)
              IN  /\ posts' = posts + Len(reqs)
                  /\ hist' = [hist EXCEPT !.call.posts = @ \o reqs,
                                          !.call.batch = "posted"]
                  /\ IF BatchRaises(reply)
                     THEN /\ frame' = [frame EXCEPT !.reply = reply]
                          /\ pc' = "raised"
                     ELSE /\ frame' = [frame EXCEPT
                                         !.reply = reply,
                                         !.outcome = Outcome(reply, Len(frame.recipients))]
                          /\ pc' = "return"
       ELSE /\ posts' = posts
            /\ hist' = [hist EXCEPT !.call.batch = "disabled"]
            /\ frame' = frame
            /\ pc' = "return"
    /\ UNCHANGED <<env, IPROG_API_TOKEN, IPROG_BASE_URL, svc, docs, calls>>

SendBatch == SendBatchWith(Replies)
SendBatchProbe == SendBatchWith(Replies \cup ProbeReplies)

\* the call returns to its caller (or its exception reaches the caller)
Return ==
    /\ pc \in {"return", "raised"}
    /\ pc' = "idle"
    /\ frame' = NoFrame
    /\ hist' = [hist EXCEPT !.call = NoCall]
    /\ UNCHANGED <<env, IPROG_API_TOKEN, IPROG_BASE_URL, svc, docs, posts, calls>>

\* the process environment changes: one variable is set, unset or replaced
EnvChange ==
    /\ pc = "idle"
    /\ \E e \in Envs :
          /\ Cardinality({k \in DOMAIN e : e[k] # env[k]}) = 1
          /\ env' = e
    /\ UNCHANGED <<IPROG_API_TOKEN, IPROG_BASE_URL, svc, pc, frame, docs, posts,
                   calls, hist>>

Next ==
    \/ NewNotificationService
    \/ CallSendNotification
    \/ CallSendEventNotification
    \/ CallSendWeatherAlert
    \/ CallSendSmsOnly
    \/ LogBranch
    \/ SmsBranch
    \/ SendBatch
    \/ Return
    \/ EnvChange

Spec == Init /\ [][Next]_vars

\* _send_sms_batch alone, reached through send_sms_only, against every reply
NextBatch ==
    \/ CallSendSmsOnly
    \/ SendBatchProbe
    \/ Return

SpecBatch == Init /\ [][NextBatch]_vars

\* _create_sms_message alone, on a title and a body of every length
InitCompose ==
    /\ env = [creds_json |-> NoneStr, creds_file |-> NoneStr]
    /\ IPROG_API_TOKEN = NoneStr
    /\ IPROG_BASE_URL = NoneSeq
    /\ svc = NoService
    /\ pc = "compose"
    /\ \E tl \in 0..MaxTitleLen, bl \in 0..MaxBodyLen :
          frame = [NoFrame EXCEPT !.title = Text(1000, tl),
                                  !.message = Text(2000, bl)]
    /\ docs = 0
    /\ posts = 0
    /\ calls = 0
    /\ hist = [credsMissing |-> FALSE, call |-> NoCall]

Compose ==
    /\ pc = "compose"
    /\ frame' = [frame EXCEPT
                   !.sms_message = CreateSmsMessage(frame.title, frame.message)]
    /\ pc' = "composed"
    /\ UNCHANGED <<env, IPROG_API_TOKEN, IPROG_BASE_URL, svc, docs, posts, calls,
                   hist>>

SpecCompose == InitCompose /\ [][Compose]_vars

-----------------------------------------------------------------------------
(* Properties *)

\* the running call has ended: it returned, or an exception left it
Ended == pc \in {"return", "raised"}

\* the running call is a send_notification, whichever entry point began it
Dispatching ==
    hist.call.fn \in {"send_notification", "send_event_notification",
                      "send_weather_alert"}

\* the list the SMS branch works with: the caller's, else the directory's
Resolved ==
    IF frame.sms_recipients.some
    THEN frame.sms_recipients.v
    ELSE [k \in 1..Len(hist.call.lookup.rows) |->
             hist.call.lookup.rows[k].phone_number]

\* the one gateway call of the running call failed in some way
SmsFailed == hist.call.batch = "posted" /\ ~frame.outcome.success

\* C1: the document write and the SMS send are independent.  A dispatch whose
\* document write failed or was skipped (sink disabled), with send_sms true,
\* a credential and a non-empty recipient list, still issues the gateway
\* call; and a dispatch whose write succeeded, and whose SMS send then
\* failed in any way, ends with its document written; no step ever removes
\* a document.
C1_Kept ==
    /\ docs' >= docs
    /\ (pc \in {"sms", "batch"} => hist'.call.docs = hist.call.docs)
C1_Independent ==
    /\ [](Ended /\ Dispatching =>
            /\ ( /\ hist.call.log \in {"failed", "disabled"}
                 /\ frame.send_sms
                 /\ TruthyStr(svc.api_key)
                 /\ (frame.sms_recipients.some \/ hist.call.lookup.kind = "rows")
                 /\ Len(Resolved) > 0
                 => Len(hist.call.posts) = 1 )
            /\ ( hist.call.log = "ok" /\ SmsFailed
                 => hist.call.docs = <<InAppDoc(frame)>> ))
    /\ [][C1_Kept]_vars

C1_Witness ==
    /\ pc = "return" /\ Dispatching
    /\ hist.call.log = "failed"
    /\ Len(hist.call.posts) = 1
    /\ SmsFailed

\* C2: no error leaves a call.  Whatever the document write, the users query
\* and the gateway do, the call never ends with an exception, and every step
\* of a running call moves it nearer to its return.
Rank(p) ==
    CASE p = "log" -> 3 [] p = "sms" -> 2 [] p = "batch" -> 1 [] OTHER -> 0
C2_Advances ==
    pc \in {"log", "sms", "batch"} =>
        pc' \in {"sms", "batch", "return"} /\ Rank(pc') < Rank(pc)
C2_NoErrorEscapes ==
    /\ [](pc # "raised")
    /\ [][C2_Advances]_vars

C2_Witness ==
    /\ pc = "return" /\ Dispatching
    /\ hist.call.log = "failed"
    /\ hist.call.lookup.kind = "rows"
    /\ frame.reply.kind = "raise" /\ frame.reply.exc = "ConnectionError"

\* C3: _send_sms_batch with an empty recipient list issues no gateway call
\* and reports 0 sent, 0 failed, with or without a credential.
C3_EmptyBatchNoCall ==
    Ended /\ hist.call.batch # "none" /\ Len(frame.recipients) = 0
        => /\ Len(hist.call.posts) = 0
           /\ frame.outcome.sent = 0

\* C4: without an API credential no entry point issues a gateway call.
C4_NoCredentialNoCall ==
    ~TruthyStr(IPROG_API_TOKEN) =>
        /\ posts = 0
        /\ Len(hist.call.posts) = 0
        /\ hist.call.batch # "posted"

C4_Witness ==
    /\ ~TruthyStr(IPROG_API_TOKEN)
    /\ pc = "return"
    /\ hist.call.batch = "disabled"
    /\ Len(frame.recipients) > 0

\* C5: the one reply counts as success exactly when its status is 200, its
\* body parses as structured data, and the body carries a truthy success
\* flag or a message that contains "successfully" in any letter case; a
\* transport error, any other status, an unparseable body and a body with
\* neither indicator all count as failure.
SaysSuccessfully(text) ==
    \E k \in 1..Len(text) :
        /\ k + 11 <= Len(text)
        /\ \A j \in 1..12 : LowerChar(text[k + j - 1]) = Successfully[j]
C5_Claimed(reply) ==
    /\ reply.kind = "response"
    /\ reply.status = 200
    /\ reply.parse = "dict"
    /\ \/ Truthy(reply.success)
       \/ reply.message.t = "str" /\ SaysSuccessfully(reply.message.s)
C5_Classification ==
    pc = "return" /\ hist.call.batch = "posted" =>
        /\ frame.outcome.success <=> C5_Claimed(frame.reply)
        /\ frame.outcome.sent = IF C5_Claimed(frame.reply) THEN frame.outcome.of ELSE 0

C5_Witness ==
    /\ pc = "return" /\ hist.call.batch = "posted"
    /\ frame.reply.status = 200
    /\ frame.reply.success = JBool(FALSE)
    /\ frame.reply.message = JStr(QueuedUpper)
    /\ frame.outcome.success
    /\ frame.outcome.sent = 3

\* C6: the composed SMS is at most 160 characters long; when
\* len(title) + 2 + min(len(body), 120) > 160 it is exactly 160 long, the
\* first 157 characters of "{title}: {body[:120]}" followed by "...";
\* otherwise it is "{title}: {body[:120]}" unchanged.
C6_Compose ==
    pc = "composed" =>
        LET t == frame.title
            b == frame.message
            cut == IF Len(b) < 120 THEN Len(b) ELSE 120
            full == t \o <<58, 32>> \o SubSeq(b, 1, cut)
            out == frame.sms_message
        IN  /\ Len(out) <= 160
            /\ IF Len(t) + 2 + cut > 160
               THEN /\ Len(out) = 160
                    /\ SubSeq(out, 1, 157) = SubSeq(full, 1, 157)
                    /\ SubSeq(out, 158, 160) = <<46, 46, 46>>
               ELSE out = full

C6_Witness ==
    /\ pc = "composed"
    /\ Len(frame.title) = 41 /\ Len(frame.message) = 125
    /\ Len(frame.sms_message) = 160
    /\ frame.sms_message[157] = 2114
    /\ frame.sms_message[158] = 46

\* C7: when the users query of a dispatch fails, the lookup yields the empty
\* list, no gateway call is made, _send_sms_batch is not entered, and the
\* call returns normally.
C7_LookupErrorSkipsSms ==
    Ended /\ hist.call.lookup.kind = "error" =>
        /\ pc = "return"
        /\ frame.recipients = <<>>
        /\ hist.call.batch = "none"
        /\ Len(hist.call.posts) = 0

C7_Witness ==
    /\ pc = "return" /\ Dispatching
    /\ hist.call.lookup.kind = "error"
    /\ hist.call.queries = 1
    /\ hist.call.log = "ok"

\* C8: a call writes at most one document and issues at most one gateway
\* request; that request carries every recipient number, comma-joined in
\* list order; and after any number of calls the documents written and the
\* requests issued are each at most the number of calls.
CommaJoined(field, recipients) ==
    /\ Len(field) = 2 * Len(recipients) - 1
    /\ \A k \in 1..Len(recipients) : field[2 * k - 1] = recipients[k]
    /\ \A k \in 1..(Len(recipients) - 1) : field[2 * k] = ","
C8_OneWriteOneCall ==
    /\ Len(hist.call.docs) <= 1
    /\ Len(hist.call.posts) <= 1
    /\ docs <= calls
    /\ posts <= calls
    /\ ( Dispatching /\ Len(hist.call.posts) >= 1 =>
           CommaJoined(hist.call.posts[1].json.phone_number, frame.recipients) )

C8_Witness ==
    /\ pc = "return" /\ Dispatching
    /\ calls = 2 /\ docs = 2 /\ posts = 2
    /\ Len(frame.recipients) = 3
    /\ hist.call.posts[1].json.phone_number = <<P2, ",", P1, ",", P2>>

\* C9 as stated: no dispatch on an instance built while the SMS token or the
\* SMS base URL was missing issues a gateway call, and none on an instance
\* built while the document-store credentials were missing writes a
\* document.
C9_Step_Original ==
    Dispatching =>
        /\ ( ~TruthyStr(IPROG_API_TOKEN) \/ ~TruthySeq(IPROG_BASE_URL)
             => posts' = posts )
        /\ ( hist.credsMissing => docs' = docs )
C9_Original == [][C9_Step_Original]_vars

\* C9 as amended: an instance built while the SMS token was missing never
\* issues a gateway call, and one built while the document-store credentials
\* were missing never writes a document, whatever the environment holds by
\* the time of the call; a missing base URL disables nothing: the request
\* goes to the default endpoint.
C9_Step ==
    /\ ( ~TruthyStr(IPROG_API_TOKEN) => posts' = posts )
    /\ ( hist.credsMissing => docs' = docs )
    /\ ( ~TruthySeq(IPROG_BASE_URL) /\ posts' > posts =>
           /\ posts' = posts + 1
           /\ hist'.call.posts[Len(hist'.call.posts)].url =
                <<"https://sms.iprogtech.com/api/v1", "/sms_messages/send_bulk">> )
C9_DisabledForLife == [][C9_Step]_vars

C9_Witness ==
    /\ pc = "sms" /\ hist.call.fn = "send_notification"
    /\ hist.credsMissing
    /\ env.creds_json = SomeStr("{key}")
    /\ hist.call.log = "disabled"
    /\ docs = 0

\* C10: in the SMS branch of a dispatch (send_sms true and the branch
\* entered), a recipient list the caller passed is used as it is (same
\* numbers, same order, repeats kept) and the users table is not queried;
\* with no list passed the users table is queried exactly once; and an
\* empty list, passed or looked up, ends the call with no gateway call and
\* no error.  With send_sms false nothing is queried or sent.
C10_Recipients ==
    Ended /\ Dispatching =>
        /\ ( ~frame.send_sms =>
               hist.call.queries = 0 /\ Len(hist.call.posts) = 0 )
        /\ ( frame.send_sms /\ TruthyStr(svc.api_key) =>
               /\ ( frame.sms_recipients.some =>
                      /\ hist.call.queries = 0
                      /\ ( Len(frame.sms_recipients.v) > 0 =>
                             /\ frame.recipients = frame.sms_recipients.v
                             /\ Len(hist.call.posts) = 1
                             /\ CommaJoined(hist.call.posts[1].json.phone_number,
                                            frame.sms_recipients.v) ) )
               /\ ( ~frame.sms_recipients.some => hist.call.queries = 1 )
               /\ ( Len(Resolved) = 0 =>
                      pc = "return" /\ Len(hist.call.posts) = 0 ) )

C10_Witness ==
    /\ pc = "return" /\ Dispatching
    /\ frame.sms_recipients = SomeSeq(<<P2, P1, P2>>)
    /\ hist.call.queries = 0
    /\ Len(hist.call.posts) = 1
    /\ hist.call.posts[1].json.phone_number = <<P2, ",", P1, ",", P2>>

=============================================================================
